---- MODULE Spec2Model ----
(***************************************************************************)
(* The LS-8 emulator of src/ls8/cpu.py as a state machine.                 *)
(*                                                                         *)
(* One pass of the `while self.running` loop of CPU.run is four steps:     *)
(*   "sample"  - keyboard and timer sources raise bits of R6 (IS)          *)
(*   "service" - the interrupt loop over the bits of R5 & R6               *)
(*   "fetch"   - IR, operand_a and operand_b are read                      *)
(*   "exec"    - the handler of IR runs and PC is advanced                 *)
(* A Python exception leaves run(): it is recorded in `fault` and nothing  *)
(* is enabled afterwards.  The state written before the exception stays.   *)
(***************************************************************************)
EXTENDS Integers, Sequences, FiniteSets, TLC

\* ------------------------------------------------------------------------
\* Opcodes (cpu.py lines 6-33)
ADD  == 160
AND  == 168
CALL == 80
CMP  == 167
HLT  == 1
IRET == 19
JEQ  == 85
JGE  == 90
JGT  == 87
JLE  == 89
JLT  == 88
JMP  == 84
JNE  == 86
LD   == 131
LDI  == 130
MOD  == 164
MUL  == 162
NOT  == 105
OR   == 170
POP  == 70
PRN  == 71
PRA  == 72
PUSH == 69
RET  == 17
SHL  == 172
SHR  == 173
ST   == 132
XOR  == 171

\* The keys of self.branchtable
Known == {MUL, LDI, HLT, PRN, POP, PUSH, CALL, RET, ADD, ST, JMP, PRA, IRET,
          LD, CMP, JEQ, JGE, JGT, JLE, JLT, JNE, AND, OR, XOR, NOT, SHL,
          SHR, MOD}

\* ------------------------------------------------------------------------
\* Bounds of the environment: how often the sources may fire in one run.
MaxTicks == 2
MaxKeys  == 1

\* ------------------------------------------------------------------------
\* Machine sizes and fixed addresses
RamSize   == 256   \* bytearray(256)
RegCount  == 8     \* bytearray(8)
ByteLimit == 256   \* an element of a bytearray is in range(0, 256)
SPInit    == 244   \* self.reg[7] = 0xF4
KeyAddr   == 244   \* self.ram_write(0xF4, ...)
VecBase   == 248   \* interrupt_vector = 0xF8 + i
None      == -1    \* Python's None of IR, MAR, MDR before the first access

Byte == 0 .. (ByteLimit - 1)
Addr == 0 .. (RamSize - 1)
RegIx == 0 .. (RegCount - 1)

\* ------------------------------------------------------------------------
\* Python's integer operators on the values the program applies them to
Pow2(n) == 2 ^ n
Bit(x, i) == (x \div Pow2(i)) % 2
\* the number whose binary digit of weight 2^i is d[i]
FromBits(d) == d[0] + 2 * d[1] + 4 * d[2] + 8 * d[3] + 16 * d[4] + 32 * d[5]
               + 64 * d[6] + 128 * d[7]
BitAnd(a, b) == FromBits([i \in 0 .. 7 |-> Bit(a, i) * Bit(b, i)])
BitOr(a, b) == FromBits([i \in 0 .. 7 |-> IF Bit(a, i) + Bit(b, i) > 0 THEN 1 ELSE 0])
BitXor(a, b) == FromBits([i \in 0 .. 7 |-> (Bit(a, i) + Bit(b, i)) % 2])
\* a >> b for a in 0..255
ShiftRight(a, b) == IF b >= 8 THEN 0 ELSE a \div Pow2(b)
\* a << b for a in 0..255: exact up to b = 8; beyond that only "not a byte"
\* is observable, so the shift count is capped to keep the value small
ShiftLeft(a, b) == a * Pow2(IF b >= 8 THEN 8 ELSE b)
\* int('1' * (7 - i) + '0' + '1' * i, 2): the digit of weight 2^k is '0' iff k = i
ClearMask(i) == FromBits([k \in 0 .. 7 |-> IF k = i THEN 0 ELSE 1])

\* ------------------------------------------------------------------------
\* The CPU object as a record; every method below maps a record to a record.
Raise(s, kind) == [s EXCEPT !.fault = kind]
Ok(s) == s.fault = "none"

\* self.reg[r]: r is an operand byte
RegOk(r) == r \in RegIx

\* self.reg[r] = v on a bytearray(8)
SetReg(s, r, v) ==
    IF ~Ok(s) THEN s
    ELSE IF ~RegOk(r) THEN Raise(s, "IndexError")
    ELSE IF v \notin Byte THEN Raise(s, "ValueError")
    ELSE [s EXCEPT !.reg[r] = v]

\* self.ram[a] = v on a bytearray(256), a a valid address
SetRam(s, a, v) ==
    IF ~Ok(s) THEN s
    ELSE IF a \notin Addr THEN Raise(s, "IndexError")
    ELSE IF v \notin Byte THEN Raise(s, "ValueError")
    ELSE [s EXCEPT !.ram[a] = v]

\* ram_read: the value read is the MDR of the result
ram_read(s, address) ==
    IF ~Ok(s) THEN s
    ELSE LET s1 == [s EXCEPT !.MAR = address]
         IN IF address \in Addr THEN [s1 EXCEPT !.MDR = s.ram[address]]
            ELSE Raise(s1, "IndexError")

ram_write(s, address, value) ==
    IF ~Ok(s) THEN s
    ELSE SetRam([s EXCEPT !.MAR = address, !.MDR = value], address, value)

\* ------------------------------------------------------------------------
\* CPU.alu, one operator per branch
alu_add(s, reg_a, reg_b) ==
    IF ~RegOk(reg_a) \/ ~RegOk(reg_b) THEN Raise(s, "IndexError")
    ELSE SetReg(s, reg_a, s.reg[reg_a] + s.reg[reg_b])

alu_mul(s, reg_a, reg_b) ==
    IF ~RegOk(reg_a) \/ ~RegOk(reg_b) THEN Raise(s, "IndexError")
    ELSE SetReg(s, reg_a, s.reg[reg_a] * s.reg[reg_b])

alu_cmp_nozero(s, reg_a, reg_b) ==
    IF ~RegOk(reg_a) \/ ~RegOk(reg_b) THEN Raise(s, "IndexError")
    ELSE LET a == s.reg[reg_a]
             b == s.reg[reg_b]
             f1 == IF a = b THEN BitOr(s.FL, 1) ELSE s.FL
             f2 == IF a < b THEN BitOr(f1, 4) ELSE f1
             f3 == IF a > b THEN BitOr(f2, 2) ELSE f2
         IN [s EXCEPT !.FL = f3]

alu_cmp(s, reg_a, reg_b) ==
    LET s0 == [s EXCEPT !.FL = 0]
    IN IF ~RegOk(reg_a) \/ ~RegOk(reg_b) THEN Raise(s0, "IndexError")
       ELSE LET a == s.reg[reg_a]
                b == s.reg[reg_b]
                f1 == IF a = b THEN BitOr(0, 1) ELSE 0
                f2 == IF a < b THEN BitOr(f1, 4) ELSE f1
                f3 == IF a > b THEN BitOr(f2, 2) ELSE f2
            IN [s0 EXCEPT !.FL = f3]

\* the fourth branch tests op == "ADD" again, so "AND" reaches the final else
alu_and(s, reg_a, reg_b) == Raise(s, "Exception")

alu_or(s, reg_a, reg_b) ==
    IF ~RegOk(reg_a) \/ ~RegOk(reg_b) THEN Raise(s, "IndexError")
    ELSE SetReg(s, reg_a, BitOr(s.reg[reg_a], s.reg[reg_b]))

alu_xor(s, reg_a, reg_b) ==
    IF ~RegOk(reg_a) \/ ~RegOk(reg_b) THEN Raise(s, "IndexError")
    ELSE SetReg(s, reg_a, BitXor(s.reg[reg_a], s.reg[reg_b]))

alu_shl(s, reg_a, reg_b) ==
    IF ~RegOk(reg_a) \/ ~RegOk(reg_b) THEN Raise(s, "IndexError")
    ELSE SetReg(s, reg_a, ShiftLeft(s.reg[reg_a], s.reg[reg_b]))

alu_shr(s, reg_a, reg_b) ==
    IF ~RegOk(reg_a) \/ ~RegOk(reg_b) THEN Raise(s, "IndexError")
    ELSE SetReg(s, reg_a, ShiftRight(s.reg[reg_a], s.reg[reg_b]))

alu_mod(s, reg_a, reg_b) ==
    IF ~RegOk(reg_a) \/ ~RegOk(reg_b) THEN Raise(s, "IndexError")
    ELSE IF s.reg[reg_b] = 0 THEN Raise(s, "ZeroDivisionError")
    ELSE SetReg(s, reg_a, s.reg[reg_a] % s.reg[reg_b])

\* ------------------------------------------------------------------------
\* The op_* handlers
op_ldi(s, a, b) == SetReg(s, a, b)

op_push(s, a) ==
    LET s1 == SetReg(s, 7, s.reg[7] - 1)
    IN IF ~Ok(s1) THEN s1
       ELSE IF ~RegOk(a) THEN Raise(s1, "IndexError")
       ELSE ram_write(s1, s1.reg[7], s1.reg[a])

op_pop(s, a) ==
    LET s1 == op_ldi(s, a, s.ram[s.reg[7]])
    IN IF ~Ok(s1) THEN s1 ELSE SetReg(s1, 7, s1.reg[7] + 1)

op_call(s, a) ==
    LET s1 == SetReg(s, 7, s.reg[7] - 1)
        s2 == IF Ok(s1) THEN ram_write(s1, s1.reg[7], s1.PC + 2) ELSE s1
    IN IF ~Ok(s2) THEN s2
       ELSE IF ~RegOk(a) THEN Raise(s2, "IndexError")
       ELSE [s2 EXCEPT !.PC = s2.reg[a]]

op_ret(s) ==
    LET s1 == [s EXCEPT !.PC = s.ram[s.reg[7]]]
    IN SetReg(s1, 7, s1.reg[7] + 1)

\* a HLT that prints and leaves the loop running
op_hlt_print_only(s) == [s EXCEPT !.out = Append(@, <<"print", "exiting">>)]

op_hlt(s) == [s EXCEPT !.out = Append(@, <<"print", "exiting">>), !.running = FALSE]

\* for i in range(6, -1, -1): self.op_pop(i)
RECURSIVE iret_pops(_, _)
iret_pops(s, i) ==
    IF i < 0 \/ ~Ok(s) THEN s ELSE iret_pops(op_pop(s, i), i - 1)

\* the FL byte of the frame is stored in the attribute `flag`, not in FL
op_iret(s) ==
    LET s1 == iret_pops(s, 6)
        s2 == IF Ok(s1) THEN SetReg([s1 EXCEPT !.flag = s1.ram[s1.reg[7]]], 7, s1.reg[7] + 1)
              ELSE s1
        s3 == IF Ok(s2) THEN SetReg([s2 EXCEPT !.PC = s2.ram[s2.reg[7]]], 7, s2.reg[7] + 1)
              ELSE s2
    IN s3

\* a conditional jump without its else branch
Jump_no_else(s, taken, a) ==
    IF taken
    THEN IF RegOk(a) THEN [s EXCEPT !.PC = s.reg[a]] ELSE Raise(s, "IndexError")
    ELSE s

\* if <taken>: self.PC = self.reg[operand_a] else: self.PC += 2
Jump(s, taken, a) ==
    IF taken
    THEN IF RegOk(a) THEN [s EXCEPT !.PC = s.reg[a]] ELSE Raise(s, "IndexError")
    ELSE [s EXCEPT !.PC = @ + 2]

op_jeq(s, a) == Jump(s, BitAnd(s.FL, 1) = 1, a)
op_jge(s, a) == Jump(s, BitAnd(s.FL, 3) = 1, a)
op_jgt(s, a) == Jump(s, BitAnd(ShiftRight(s.FL, 1), 1) = 1, a)
op_jle(s, a) == Jump(s, BitAnd(s.FL, 5) = 5, a)
op_jlt(s, a) == Jump(s, BitAnd(ShiftRight(s.FL, 2), 1) = 1, a)
op_jne(s, a) == Jump(s, BitAnd(s.FL, 1) = 0, a)
op_jmp(s, a) == Jump(s, TRUE, a)

op_ld(s, a, b) ==
    IF ~RegOk(b) THEN Raise(s, "IndexError")
    ELSE SetReg(s, a, s.ram[s.reg[b]])

op_st(s, a, b) ==
    IF ~RegOk(a) \/ ~RegOk(b) THEN Raise(s, "IndexError")
    ELSE SetRam(s, s.reg[a], s.reg[b])

op_pra(s, a) ==
    IF ~RegOk(a) THEN Raise(s, "IndexError")
    ELSE [s EXCEPT !.out = Append(@, <<"chr", s.reg[a]>>)]

op_prn(s, a) ==
    IF ~RegOk(a) THEN Raise(s, "IndexError")
    ELSE [s EXCEPT !.out = Append(@, <<"int", s.reg[a]>>)]

\* op_not takes two operands and is dispatched with one
op_not(s, a) == Raise(s, "TypeError")

\* ------------------------------------------------------------------------
\* Interrupt entry: the body of `if interrupt_happened` in CPU.run

\* for j in range(7): self.op_push(j); self.reg[j] = 0
RECURSIVE push_and_zero(_, _)
push_and_zero(s, j) ==
    IF j > 6 \/ ~Ok(s) THEN s
    ELSE push_and_zero(SetReg(op_push(s, j), j, 0), j + 1)

\* an entry that pushes FL before PC
interrupt_entry_fl_first(s, i) ==
    LET s1 == SetReg(s, 6, BitAnd(s.reg[6], ClearMask(i)))
        s2 == SetReg(s1, 7, s1.reg[7] - 1)
        s3 == IF Ok(s2) THEN ram_write(s2, s2.reg[7], s2.FL) ELSE s2
        s4 == IF Ok(s3) THEN SetReg(s3, 7, s3.reg[7] - 1) ELSE s3
        s5 == IF Ok(s4) THEN ram_write(s4, s4.reg[7], s4.PC) ELSE s4
        s6 == IF Ok(s5) THEN push_and_zero([s5 EXCEPT !.FL = 0], 0) ELSE s5
    IN IF Ok(s6) THEN [s6 EXCEPT !.PC = s6.ram[VecBase + i]] ELSE s6

interrupt_entry(s, i) ==
    LET s1 == SetReg(s, 6, BitAnd(s.reg[6], ClearMask(i)))
        s2 == SetReg(s1, 7, s1.reg[7] - 1)
        s3 == IF Ok(s2) THEN ram_write(s2, s2.reg[7], s2.PC) ELSE s2
        s4 == IF Ok(s3) THEN SetReg(s3, 7, s3.reg[7] - 1) ELSE s3
        s5 == IF Ok(s4) THEN ram_write(s4, s4.reg[7], s4.FL) ELSE s4
        s6 == IF Ok(s5) THEN push_and_zero([s5 EXCEPT !.FL = 0], 0) ELSE s5
    IN IF Ok(s6) THEN [s6 EXCEPT !.PC = s6.ram[VecBase + i]] ELSE s6

\* for i in range(8): masked_interrupts is computed once, before the loop
RECURSIVE service(_, _, _)
service(s, masked, i) ==
    IF i > 7 \/ ~Ok(s) THEN s
    ELSE service(IF Bit(masked, i) = 1 THEN interrupt_entry(s, i) ELSE s,
                 masked, i + 1)

\* ------------------------------------------------------------------------
\* The event sources at the top of the loop

\* self.ram_write(0xF4, ord(input.strip())); self.reg[6] |= 0b10
\* `line` is the stripped line as a sequence of character codes
keyboard(s, line) ==
    IF Len(line) # 1 THEN Raise(s, "TypeError")
    ELSE LET s1 == ram_write(s, KeyAddr, line[1])
         IN IF Ok(s1) THEN SetReg(s1, 6, BitOr(s1.reg[6], 2)) ELSE s1

\* if current_time - interrupt_time >= 1: self.reg[6] |= 0b01
timer(s) == SetReg(s, 6, BitOr(s.reg[6], 1))

\* ------------------------------------------------------------------------
\* Decoding in CPU.run
operand_count(ir) == ShiftRight(ir, 6)
is_pc_setter(ir) == BitAnd(ShiftRight(ir, 4), 1)

\* if is_pc_setter == 0: self.PC += operand_count + 1
advance_pc(s, ir) ==
    IF Ok(s) /\ is_pc_setter(ir) = 0
    THEN [s EXCEPT !.PC = @ + operand_count(ir) + 1]
    ELSE s

\* ------------------------------------------------------------------------
\* State
VARIABLES ram, reg, PC, IR, MAR, MDR, FL, running, flag,
          operand_a, operand_b,
          fault, phase, out,
          ticks, keys,
          isr, calls, last, raises, vectorings

vars == <<ram, reg, PC, IR, MAR, MDR, FL, running, flag,
          operand_a, operand_b, fault, phase, out, ticks, keys,
          isr, calls, last, raises, vectorings>>

Self == [ram |-> ram, reg |-> reg, PC |-> PC, IR |-> IR, MAR |-> MAR,
         MDR |-> MDR, FL |-> FL, running |-> running, flag |-> flag,
         fault |-> fault, out |-> out]

Commit(s) ==
    /\ ram' = s.ram
    /\ reg' = s.reg
    /\ PC' = s.PC
    /\ IR' = s.IR
    /\ MAR' = s.MAR
    /\ MDR' = s.MDR
    /\ FL' = s.FL
    /\ running' = s.running
    /\ flag' = s.flag
    /\ fault' = s.fault
    /\ out' = s.out

\* ------------------------------------------------------------------------
\* History (not program state)
\*   isr   - one record per interrupt entry that no IRET has ended yet: the
\*           state the entry found and the IS bits the sources raised since
\*   calls - one record per CALL that no RET has ended yet: the address of
\*           the CALL, SP before it and the return cell as it wrote it
\*   last  - what the most recent dispatch found: opcode, operands,
\*           registers, FL and PC; the opcode is None after an interrupt entry
\*   raises     - per IS bit, how often a source has turned it from 0 to 1
\*   vectorings - per IS bit, how often an entry has loaded PC from its vector
Frame(s, i) == [PC |-> s.PC, FL |-> s.FL, reg |-> s.reg, i |-> i, raised |-> {}]

RECURSIVE frames_after(_, _, _, _)
frames_after(s, masked, i, fr) ==
    IF i > 7 \/ ~Ok(s) THEN fr
    ELSE IF Bit(masked, i) = 1
         THEN frames_after(interrupt_entry(s, i), masked, i + 1, Append(fr, Frame(s, i)))
         ELSE frames_after(s, masked, i + 1, fr)

\* the counts `v` after the entries of one servicing step
RECURSIVE vectorings_after(_, _, _, _)
vectorings_after(s, masked, i, v) ==
    IF i > 7 \/ ~Ok(s) THEN v
    ELSE IF Bit(masked, i) = 1
         THEN vectorings_after(interrupt_entry(s, i), masked, i + 1,
                               IF Ok(interrupt_entry(s, i)) THEN [v EXCEPT ![i] = @ + 1] ELSE v)
         ELSE vectorings_after(s, masked, i + 1, v)

\* the counts `n` after the sources have set `bits` in an IS that was `is`
NoteRaises(n, bits, is) ==
    [i \in 0 .. 7 |-> IF i \in bits /\ Bit(is, i) = 0 THEN n[i] + 1 ELSE n[i]]

NoteRaised(fr, bits) == [k \in 1 .. Len(fr) |-> [fr[k] EXCEPT !.raised = @ \cup bits]]

Front(fr) == IF Len(fr) = 0 THEN fr ELSE SubSeq(fr, 1, Len(fr) - 1)

Found == [IR |-> IR, a |-> operand_a, b |-> operand_b, reg |-> reg, FL |-> FL, PC |-> PC]

CallRecord(s) == [c |-> PC, SP |-> reg[7], cell |-> s.ram[s.reg[7]]]

\* ------------------------------------------------------------------------
\* Program images.  load() writes the bytes of the file to successive
\* addresses from 0; cells the listing leaves out are zero.
Zero == [a \in Addr |-> 0]

Place(img, off, bytes) ==
    [a \in Addr |-> IF a >= off /\ a < off + Len(bytes)
                    THEN bytes[a - off + 1] ELSE img[a]]

\* register values of the arithmetic and comparison programs
Vals == {0, 1, 2, 255}
AluOps == {ADD, MUL, MOD, CMP, AND, OR, XOR, SHL, SHR}
JumpOps == {JEQ, JNE, JGT, JLT, JGE, JLE, JMP}

\* R0 = a; R1 = b; CMP R1,R0 (so that FL is set); op R0,R1; PRN R0; HLT
ProgAlu(op, a, b) ==
    Place(Zero, 0, <<LDI, 0, a, LDI, 1, b, CMP, 1, 0, op, 0, 1, PRN, 0, HLT>>)

ProgNot(a) == Place(Zero, 0, <<LDI, 0, a, NOT, 0, HLT>>)

\* CMP R0,R1 then a jump to 15; HLT at 14 is the fall-through
ProgJump(j, a, b) ==
    Place(Zero, 0, <<LDI, 0, a, LDI, 1, b, CMP, 0, 1, LDI, 2, 15, j, 2, HLT,
                     PRN, 0, HLT>>)

\* a jump to 6 on the FL of construction; HLT at 5 is the fall-through
ProgJumpNoCmp(j) ==
    Place(Zero, 0, <<LDI, 2, 6, j, 2, HLT, PRN, 0, HLT>>)

\* SP = sp; PUSH Rn; POP Rm
ProgStack(n, m, sp) ==
    Place(Zero, 0, <<LDI, 0, 42, LDI, 1, 17, LDI, 7, sp, PUSH, n, POP, m, HLT>>)

\* SP = sp; then a POP or a RET on the stack as it is
ProgPopAt(sp) == Place(Zero, 0, <<LDI, 7, sp, POP, 1, HLT>>)
ProgRetAt(sp) == Place(Place(Zero, 0, <<LDI, 7, sp, RET>>), sp, <<8>>)

\* CALL R1 at address c, the subroutine at 32
ProgCall(c) ==
    Place(Place(Place(Zero, 0, <<LDI, 1, 32, LDI, 0, c, JMP, 0>>),
                32, <<LDI, 2, 99, RET>>),
          c, <<CALL, 1, HLT>>)

\* a two-operand instruction in the last three cells of memory
ProgWrap == Place(Place(Zero, 0, <<LDI, 0, 253, JMP, 0>>), 253, <<LDI, 1, 7>>)

\* ST and LD through a register address, PRA of a letter
ProgMem == Place(Zero, 0, <<LDI, 0, 200, LDI, 1, 72, ST, 0, 1, LD, 2, 0, PRA, 2, HLT>>)

\* a byte that is no opcode
ProgUnknown == Place(Zero, 0, <<LDI, 0, 1, 0>>)

\* bytes that are no opcode, with and without operand and sets-PC bits
NoOpcodes == {2, 143, 255}
ProgUnknownByte(b) == Place(Zero, 0, <<LDI, 0, 1, b, 0, 0>>)

\* Interrupts: IM = im; the vectors 0 and 1 lead to 32 and 48.  The handler
\* of the timer prints a letter; the handler of the keyboard is `h1`.
HandlerPlain == <<IRET>>
HandlerWritesMask == <<LDI, 5, 1, LDI, 6, 1, PRN, 0, IRET>>
Handlers == {HandlerPlain, HandlerWritesMask}

ProgIrq(im, h1) ==
    Place(Place(Place(Place(Zero,
        0, <<LDI, 5, im, LDI, 0, 3, LDI, 1, 200, CMP, 0, 1, PRN, 0, HLT>>),
        32, <<LDI, 0, 65, PRA, 0, IRET>>),
        48, h1),
        VecBase, <<32, 48>>)

Programs ==
    {ProgAlu(op, a, b) : op \in AluOps, a \in Vals, b \in Vals}
    \cup {ProgNot(a) : a \in Vals}
    \cup {ProgJump(j, a, b) : j \in JumpOps, a \in {1, 2}, b \in {1, 2}}
    \cup {ProgJumpNoCmp(j) : j \in JumpOps}
    \cup {ProgStack(n, m, sp) : n \in {0, 7}, m \in {1, 7}, sp \in {0, 1, SPInit, 255}}
    \cup {ProgPopAt(sp) : sp \in {254, 255}}
    \cup {ProgRetAt(sp) : sp \in {254, 255}}
    \cup {ProgCall(c) : c \in {16, 253, 254}}
    \cup {ProgWrap, ProgMem, ProgUnknown}
    \cup {ProgUnknownByte(b) : b \in NoOpcodes}
    \cup {ProgIrq(im, h1) : im \in {1, 2, 3}, h1 \in Handlers}

\* ------------------------------------------------------------------------
\* CPU.__init__ followed by load()
Init ==
    /\ ram \in Programs
    /\ reg = [r \in RegIx |-> IF r = 7 THEN SPInit ELSE 0]
    /\ PC = 0
    /\ IR = None
    /\ MAR = None
    /\ MDR = None
    /\ FL = 0
    /\ running = TRUE
    /\ flag = None
    /\ operand_a = None
    /\ operand_b = None
    /\ fault = "none"
    /\ phase = "sample"
    /\ out = <<>>
    /\ ticks = 0
    /\ keys = 0
    /\ isr = <<>>
    /\ calls = <<>>
    /\ last = [IR |-> None, a |-> None, b |-> None,
               reg |-> [r \in RegIx |-> IF r = 7 THEN SPInit ELSE 0], FL |-> 0, PC |-> 0]
    /\ raises = [i \in 0 .. 7 |-> 0]
    /\ vectorings = [i \in 0 .. 7 |-> 0]

\* ------------------------------------------------------------------------
\* The loop of CPU.run

\* what select() and readline() may deliver: nothing, or one stripped line
KeyLines == {<<65>>, <<>>}
Inputs == {<<>>} \cup (IF keys < MaxKeys THEN {<<l>> : l \in KeyLines} ELSE {})
Elapsed == {FALSE} \cup (IF ticks < MaxTicks THEN {TRUE} ELSE {})

\* lines 101-114: keyboard, then timer
Sample ==
    /\ phase = "sample"
    /\ running
    /\ fault = "none"
    /\ \E inp \in Inputs, tick \in Elapsed :
        LET s1 == IF Len(inp) = 1 THEN keyboard(Self, inp[1]) ELSE Self
            s2 == IF tick /\ Ok(s1) THEN timer(s1) ELSE s1
            bits == (IF Len(inp) = 1 /\ Ok(s2) THEN {1} ELSE {})
                    \cup (IF tick /\ Ok(s2) THEN {0} ELSE {})
        IN /\ Commit(s2)
           /\ keys' = keys + Len(inp)
           /\ ticks' = ticks + (IF tick THEN 1 ELSE 0)
           /\ isr' = NoteRaised(isr, bits)
           /\ raises' = NoteRaises(raises, bits, reg[6])
    /\ phase' = "service"
    /\ UNCHANGED <<operand_a, operand_b, calls, last, vectorings>>

\* a controller that takes IS for the pending set, whatever IM is
Service_unmasked ==
    /\ phase = "service"
    /\ fault = "none"
    /\ LET masked == reg[6]
       IN /\ Commit(service(Self, masked, 0))
          /\ isr' = frames_after(Self, masked, 0, isr)
          /\ last' = IF masked = 0 THEN last ELSE [last EXCEPT !.IR = None]
          /\ vectorings' = vectorings_after(Self, masked, 0, vectorings)
    /\ phase' = "fetch"
    /\ UNCHANGED <<operand_a, operand_b, ticks, keys, calls, raises>>

\* lines 116-135
Service ==
    /\ phase = "service"
    /\ fault = "none"
    /\ LET masked == BitAnd(reg[5], reg[6])
       IN /\ Commit(service(Self, masked, 0))
          /\ isr' = frames_after(Self, masked, 0, isr)
          /\ last' = IF masked = 0 THEN last ELSE [last EXCEPT !.IR = None]
          /\ vectorings' = vectorings_after(Self, masked, 0, vectorings)
    /\ phase' = "fetch"
    /\ UNCHANGED <<operand_a, operand_b, ticks, keys, calls, raises>>

\* lines 137-139
Fetch ==
    /\ phase = "fetch"
    /\ fault = "none"
    /\ LET s1 == ram_read(Self, PC)
           s2 == IF Ok(s1) THEN [s1 EXCEPT !.IR = s1.MDR] ELSE s1
           s3 == ram_read(s2, PC + 1)
           s4 == ram_read(s3, PC + 2)
       IN /\ Commit(s4)
          /\ operand_a' = IF Ok(s3) THEN s3.MDR ELSE operand_a
          /\ operand_b' = IF Ok(s4) THEN s4.MDR ELSE operand_b
    /\ phase' = "exec"
    /\ UNCHANGED <<ticks, keys, isr, calls, last, raises, vectorings>>

\* lines 141-152: the handler of IR has mapped Self to `s`
Dispatch(s) ==
    /\ phase = "exec"
    /\ fault = "none"
    /\ Commit(advance_pc(s, IR))
    /\ last' = Found
    /\ phase' = "sample"
    /\ UNCHANGED <<operand_a, operand_b, ticks, keys, raises, vectorings>>

ExecADD ==
    /\ IR = ADD
    /\ Dispatch(alu_add(Self, operand_a, operand_b))
    /\ UNCHANGED <<isr, calls>>

ExecAND ==
    /\ IR = AND
    /\ Dispatch(alu_and(Self, operand_a, operand_b))
    /\ UNCHANGED <<isr, calls>>

ExecCALL ==
    /\ IR = CALL
    /\ Dispatch(op_call(Self, operand_a))
    /\ calls' = IF Ok(op_call(Self, operand_a)) THEN Append(calls, CallRecord(op_call(Self, operand_a))) ELSE calls
    /\ UNCHANGED isr

ExecCMP ==
    /\ IR = CMP
    /\ Dispatch(alu_cmp(Self, operand_a, operand_b))
    /\ UNCHANGED <<isr, calls>>

ExecHLT ==
    /\ IR = HLT
    /\ Dispatch(op_hlt(Self))
    /\ UNCHANGED <<isr, calls>>

ExecIRET ==
    /\ IR = IRET
    /\ Dispatch(op_iret(Self))
    /\ isr' = Front(isr)
    /\ UNCHANGED calls

ExecJEQ ==
    /\ IR = JEQ
    /\ Dispatch(op_jeq(Self, operand_a))
    /\ UNCHANGED <<isr, calls>>

ExecJGE ==
    /\ IR = JGE
    /\ Dispatch(op_jge(Self, operand_a))
    /\ UNCHANGED <<isr, calls>>

ExecJGT ==
    /\ IR = JGT
    /\ Dispatch(op_jgt(Self, operand_a))
    /\ UNCHANGED <<isr, calls>>

ExecJLE ==
    /\ IR = JLE
    /\ Dispatch(op_jle(Self, operand_a))
    /\ UNCHANGED <<isr, calls>>

ExecJLT ==
    /\ IR = JLT
    /\ Dispatch(op_jlt(Self, operand_a))
    /\ UNCHANGED <<isr, calls>>

ExecJMP ==
    /\ IR = JMP
    /\ Dispatch(op_jmp(Self, operand_a))
    /\ UNCHANGED <<isr, calls>>

ExecJNE ==
    /\ IR = JNE
    /\ Dispatch(op_jne(Self, operand_a))
    /\ UNCHANGED <<isr, calls>>

ExecLD ==
    /\ IR = LD
    /\ Dispatch(op_ld(Self, operand_a, operand_b))
    /\ UNCHANGED <<isr, calls>>

ExecLDI ==
    /\ IR = LDI
    /\ Dispatch(op_ldi(Self, operand_a, operand_b))
    /\ UNCHANGED <<isr, calls>>

ExecMOD ==
    /\ IR = MOD
    /\ Dispatch(alu_mod(Self, operand_a, operand_b))
    /\ UNCHANGED <<isr, calls>>

ExecMUL ==
    /\ IR = MUL
    /\ Dispatch(alu_mul(Self, operand_a, operand_b))
    /\ UNCHANGED <<isr, calls>>

ExecNOT ==
    /\ IR = NOT
    /\ Dispatch(op_not(Self, operand_a))
    /\ UNCHANGED <<isr, calls>>

ExecOR ==
    /\ IR = OR
    /\ Dispatch(alu_or(Self, operand_a, operand_b))
    /\ UNCHANGED <<isr, calls>>

ExecPOP ==
    /\ IR = POP
    /\ Dispatch(op_pop(Self, operand_a))
    /\ UNCHANGED <<isr, calls>>

ExecPRA ==
    /\ IR = PRA
    /\ Dispatch(op_pra(Self, operand_a))
    /\ UNCHANGED <<isr, calls>>

ExecPRN ==
    /\ IR = PRN
    /\ Dispatch(op_prn(Self, operand_a))
    /\ UNCHANGED <<isr, calls>>

ExecPUSH ==
    /\ IR = PUSH
    /\ Dispatch(op_push(Self, operand_a))
    /\ UNCHANGED <<isr, calls>>

ExecRET ==
    /\ IR = RET
    /\ Dispatch(op_ret(Self))
    /\ calls' = Front(calls)
    /\ UNCHANGED isr

ExecSHL ==
    /\ IR = SHL
    /\ Dispatch(alu_shl(Self, operand_a, operand_b))
    /\ UNCHANGED <<isr, calls>>

ExecSHR ==
    /\ IR = SHR
    /\ Dispatch(alu_shr(Self, operand_a, operand_b))
    /\ UNCHANGED <<isr, calls>>

ExecST ==
    /\ IR = ST
    /\ Dispatch(op_st(Self, operand_a, operand_b))
    /\ UNCHANGED <<isr, calls>>

ExecXOR ==
    /\ IR = XOR
    /\ Dispatch(alu_xor(Self, operand_a, operand_b))
    /\ UNCHANGED <<isr, calls>>

\* a loop that skips a byte that is no opcode
ExecUnknown_skip ==
    /\ IR \notin Known
    /\ Dispatch(Self)
    /\ UNCHANGED <<isr, calls>>

\* self.branchtable[self.IR] with IR not a key
ExecUnknown ==
    /\ phase = "exec"
    /\ fault = "none"
    /\ IR \notin Known
    /\ Commit(Raise(Self, "KeyError"))
    /\ last' = Found
    /\ phase' = "sample"
    /\ UNCHANGED <<operand_a, operand_b, ticks, keys, isr, calls, raises, vectorings>>

Next ==
    \/ Sample
    \/ Service
    \/ Fetch
    \/ ExecADD
    \/ ExecAND
    \/ ExecCALL
    \/ ExecCMP
    \/ ExecHLT
    \/ ExecIRET
    \/ ExecJEQ
    \/ ExecJGE
    \/ ExecJGT
    \/ ExecJLE
    \/ ExecJLT
    \/ ExecJMP
    \/ ExecJNE
    \/ ExecLD
    \/ ExecLDI
    \/ ExecMOD
    \/ ExecMUL
    \/ ExecNOT
    \/ ExecOR
    \/ ExecPOP
    \/ ExecPRA
    \/ ExecPRN
    \/ ExecPUSH
    \/ ExecRET
    \/ ExecSHL
    \/ ExecSHR
    \/ ExecST
    \/ ExecXOR
    \/ ExecUnknown

Spec == Init /\ [][Next]_vars

\* ------------------------------------------------------------------------
\* Properties

Top(fr) == fr[Len(fr)]

\* the frame of the entry `f` lies at the top of the stack as the entry
\* wrote it, and FL is as the entry left it
FrameIntact(f) ==
    /\ f.reg[7] >= 9
    /\ reg[7] = f.reg[7] - 9
    /\ ram[reg[7] + 8] = f.PC
    /\ ram[reg[7] + 7] = f.FL
    /\ \A k \in 0 .. 5 : ram[reg[7] + 6 - k] = f.reg[k]
    /\ ram[reg[7]] = BitAnd(f.reg[6], ClearMask(f.i))
    /\ FL = 0

\* C1: an IRET that finds the frame of the entry intact resumes the
\* interrupted program with PC, FL and R0..R6 as the entry found them (R6
\* without the serviced bit) and SP at its value before the entry.
C1_RoundTrip ==
    [][(phase = "exec" /\ IR = IRET /\ Len(isr) > 0 /\ FrameIntact(Top(isr)))
        => /\ fault' = "none"
           /\ PC' = Top(isr).PC
           /\ FL' = Top(isr).FL
           /\ \A k \in 0 .. 5 : reg'[k] = Top(isr).reg[k]
           /\ reg'[6] = BitAnd(Top(isr).reg[6], ClearMask(Top(isr).i))
           /\ reg'[7] = Top(isr).reg[7]]_vars

LowestBit(m) == CHOOSE i \in 0 .. 7 : Bit(m, i) = 1 /\ \A j \in 0 .. 7 : j < i => Bit(m, j) = 0

\* C2: a servicing step that finds IM & IS non-zero services exactly one
\* interrupt, the lowest set bit i: only bit i of IS is cleared, one frame of
\* nine bytes is pushed and PC becomes mem[0xF8 + i].
C2_OnlyLowestServiced ==
    [][(phase = "service" /\ BitAnd(reg[5], reg[6]) # 0 /\ fault' = "none")
        => LET i == LowestBit(BitAnd(reg[5], reg[6]))
           IN /\ reg'[6] = BitAnd(reg[6], ClearMask(i))
              /\ reg'[7] = reg[7] - 9
              /\ Len(isr') = Len(isr) + 1
              /\ PC' = ram[VecBase + i]]_vars

\* C3: servicing is non-reentrant: at most one interrupt entry is open (not
\* yet ended by its IRET) at any time.
C3_NonReentrant == Len(isr) <= 1

\* C4: an IS bit that a source raised while the handler ran, and that the
\* interrupted program's IM enables, is set in IS after the IRET that
\* returns to the interrupted program.
C4_DeferredNotLost ==
    [][(phase = "exec" /\ IR = IRET /\ Len(isr) = 1 /\ fault' = "none")
        => \A b \in isr[1].raised :
              Bit(isr[1].reg[5], b) = 1 => Bit(reg'[6], b) = 1]_vars

\* C5: after a dispatch that completes, the opcode has its sets-PC bit or
\* PC is (PC_old + operand_count + 1) mod 256, and PC is in 0..255.
C5_PcAdvanceMod256 ==
    [][(phase = "exec" /\ fault' = "none")
        => /\ is_pc_setter(IR) = 1 \/ PC' = (PC + operand_count(IR) + 1) % 256
           /\ PC' \in 0 .. 255]_vars

\* C6: PUSH Rn completes for every SP, and a POP Rm that immediately follows
\* it leaves Rm equal to the Rn that was pushed and SP as before the PUSH.
C6_PushPop ==
    [][/\ (phase = "exec" /\ IR = PUSH /\ RegOk(operand_a)) => fault' = "none"
       /\ (phase = "exec" /\ IR = POP /\ last.IR = PUSH /\ RegOk(operand_a) /\ RegOk(last.a))
            => /\ fault' = "none"
               /\ reg'[operand_a] = last.reg[last.a]
               /\ reg'[7] = last.reg[7]]_vars

\* C7: a CALL at any address c in 0..255 is fetched and executed, and the
\* RET that finds SP and the return cell as the CALL left them sets PC to
\* (c + 2) mod 256 and SP to its value before the CALL.
C7_CallRet ==
    [][/\ (phase = "fetch" /\ PC \in Addr /\ ram[PC] = CALL) => fault' = "none"
       /\ (phase = "exec" /\ IR = CALL /\ RegOk(operand_a)) => fault' = "none"
       /\ (phase = "exec" /\ IR = RET /\ Len(calls) > 0
             /\ reg[7] = Top(calls).SP - 1 /\ ram[reg[7]] = Top(calls).cell)
            => /\ fault' = "none"
               /\ PC' = (Top(calls).c + 2) % 256
               /\ reg'[7] = Top(calls).SP]_vars

\* the one flag of a comparison: E = 1, L = 4, G = 2
FlagOf(a, b) == IF a = b THEN 1 ELSE IF a < b THEN 4 ELSE 2
OtherAlu == {ADD, MUL, MOD, AND, OR, XOR, NOT, SHL, SHR}

\* C8: whatever FL was, CMP Ra,Rb leaves FL with exactly the one flag of the
\* comparison (E if a = b, L if a < b, G if a > b) and no other bit; every
\* other ALU instruction leaves FL as it found it.
C8_CmpFlags ==
    /\ (phase = "sample" /\ last.IR = CMP /\ RegOk(last.a) /\ RegOk(last.b))
         => FL = FlagOf(last.reg[last.a], last.reg[last.b])
    /\ (phase = "sample" /\ last.IR \in OtherAlu) => FL = last.FL

\* a CMP has run on a < b with the G flag set before it
C8_Witness ==
    /\ phase = "sample"
    /\ last.IR = CMP
    /\ last.FL = 2
    /\ last.reg[last.a] < last.reg[last.b]
    /\ FL = 4

\* C9: ADD, MUL and SHL complete for all register values and leave Ra the
\* sum, product and shift modulo 256.
C9_ArithMod256 ==
    (phase = "sample" /\ last.IR \in {ADD, MUL, SHL} /\ RegOk(last.a) /\ RegOk(last.b))
      => /\ fault = "none"
         /\ LET a == last.reg[last.a]
                b == last.reg[last.b]
            IN reg[last.a] = CASE last.IR = ADD -> (a + b) % 256
                               [] last.IR = MUL -> (a * b) % 256
                               [] last.IR = SHL -> ShiftLeft(a, b) % 256

\* C10: on an FL that CMP produced, JGE Ra sets PC to Ra exactly when G or E
\* is set and JLE Ra exactly when L or E is set; otherwise PC becomes PC + 2.
C10_JgeJle ==
    /\ (phase = "sample" /\ last.IR = JGE /\ last.FL \in {1, 2, 4} /\ RegOk(last.a))
         => PC = IF Bit(last.FL, 1) = 1 \/ Bit(last.FL, 0) = 1
                 THEN last.reg[last.a] ELSE last.PC + 2
    /\ (phase = "sample" /\ last.IR = JLE /\ last.FL \in {1, 2, 4} /\ RegOk(last.a))
         => PC = IF Bit(last.FL, 2) = 1 \/ Bit(last.FL, 0) = 1
                 THEN last.reg[last.a] ELSE last.PC + 2

\* the condition of a conditional jump: E is bit 0 of FL, G bit 1, L bit 2
Holds(ir, fl) ==
    CASE ir = JEQ -> Bit(fl, 0) = 1
      [] ir = JNE -> Bit(fl, 0) = 0
      [] ir = JGT -> Bit(fl, 1) = 1
      [] ir = JLT -> Bit(fl, 2) = 1

\* C11: for every FL, JEQ, JNE, JGT and JLT leave PC = Ra when their
\* condition (E, not E, G, L) holds and PC + 2 when it does not, with no
\* further advance by the loop, and leave registers, memory and FL unchanged.
C11_ConditionalJumps ==
    [][(phase = "exec" /\ IR \in {JEQ, JNE, JGT, JLT} /\ RegOk(operand_a))
        => /\ fault' = "none"
           /\ PC' = IF Holds(IR, FL) THEN reg[operand_a] ELSE PC + 2
           /\ reg' = reg
           /\ ram' = ram
           /\ FL' = FL]_vars

\* a JNE that found E set has fallen through to the next instruction
C11_Witness ==
    /\ phase = "sample"
    /\ last.IR = JNE
    /\ last.FL = 1
    /\ fault = "none"
    /\ PC = last.PC + 2
    /\ PC # last.reg[last.a]

\* C12: AND, OR, XOR and NOT complete for all register values, leave Ra the
\* bitwise and, or, exclusive or of Ra and Rb and 255 - Ra respectively, and
\* PC advanced by operand_count + 1.
C12_Bitwise ==
    /\ (phase = "sample" /\ last.IR \in {AND, OR, XOR} /\ RegOk(last.a) /\ RegOk(last.b))
         => /\ fault = "none"
            /\ LET a == last.reg[last.a]
                   b == last.reg[last.b]
               IN reg[last.a] = CASE last.IR = AND -> BitAnd(a, b)
                                  [] last.IR = OR -> BitOr(a, b)
                                  [] last.IR = XOR -> BitXor(a, b)
            /\ PC = last.PC + 3
    /\ (phase = "sample" /\ last.IR = NOT /\ RegOk(last.a))
         => /\ fault = "none"
            /\ reg[last.a] = 255 - last.reg[last.a]
            /\ PC = last.PC + 2

\* C13: running is true at construction and only a HLT makes it false; a HLT
\* makes it false, and no step of the loop (sampling, servicing, fetch,
\* dispatch) starts from a state in which running is false, so registers,
\* memory and FL stay as the HLT left them.
C13_HaltStops ==
    /\ running = TRUE
    /\ [][/\ running = TRUE
          /\ ~running' => (phase = "exec" /\ IR = HLT)
          /\ (phase = "exec" /\ IR = HLT) => (~running' /\ fault' = "none")]_vars

\* a HLT has executed and the loop has ended
C13_Witness ==
    /\ ~running
    /\ last.IR = HLT
    /\ phase = "sample"
    /\ fault = "none"

\* C14: a dispatch that finds in IR a byte that is none of the 28 opcodes
\* ends in a fault with no handler effect (registers, memory, FL and output
\* unchanged) and PC still the address of that byte, and no step of the loop
\* starts from a fault state.
C14_UnknownOpcode ==
    [][/\ fault = "none"
       /\ (phase = "exec" /\ IR \notin Known)
            => /\ fault' # "none"
               /\ PC' = PC
               /\ ram[PC'] = IR
               /\ reg' = reg
               /\ ram' = ram
               /\ FL' = FL
               /\ out' = out
               /\ running' = running]_vars

\* the loop has stopped on a byte with operand bits that is no opcode
C14_Witness ==
    /\ fault = "KeyError"
    /\ IR = 143
    /\ PC = 3
    /\ ram[PC] = IR
    /\ last.IR = IR

\* C15: a PUSH that finds SP = 0 completes with SP = 255 and the pushed
\* value in mem[255]; a POP or RET that finds SP = 255 completes with
\* SP = 0; no PUSH, POP or RET ends in a fault whatever SP is.
C15_StackWraps ==
    /\ (phase = "sample" /\ last.IR = PUSH /\ last.a \in 0 .. 6)
         => /\ fault = "none"
            /\ last.reg[7] = 0 => (reg[7] = 255 /\ ram[255] = last.reg[last.a])
    /\ (phase = "sample" /\ last.IR = POP /\ last.a \in 0 .. 6)
         => /\ fault = "none"
            /\ last.reg[7] = 255 => reg[7] = 0
    /\ (phase = "sample" /\ last.IR = RET)
         => /\ fault = "none"
            /\ last.reg[7] = 255 => reg[7] = 0

\* exactly one bit of m is set
OneBit(m) == \E i \in 0 .. 7 : m = Pow2(i)

\* C16: a servicing step with one interrupt i pending changes, of R0..R6,
\* only bit i of R6, so R0..R5 are at the handler's first fetch what they
\* were before, and changes no memory cell other than the nine it pushed.
C16_ServiceFrame ==
    [][(phase = "service" /\ OneBit(BitAnd(reg[5], reg[6])) /\ fault' = "none")
        => /\ \A k \in 0 .. 5 : reg'[k] = reg[k]
           /\ reg'[6] = BitAnd(reg[6], ClearMask(LowestBit(BitAnd(reg[5], reg[6]))))
           /\ \A a \in Addr : (a < reg[7] - 9 \/ a >= reg[7]) => ram'[a] = ram[a]]_vars

\* SP and PC as the n-th open entry left them: what the next entry of the
\* same servicing step found, or the state after the step
LeftSP(n) == IF n < Len(isr') THEN isr'[n + 1].reg[7] ELSE reg'[7]
LeftPC(n) == IF n < Len(isr') THEN isr'[n + 1].PC ELSE PC'

\* C17: every entry of a servicing step, for interrupt i from SP = s >= 9,
\* PC = p in 0..255 and FL = f, completes and leaves SP = s - 9,
\* mem[s-1] = p, mem[s-2] = f, mem[s-3-k] = Rk as the entry found it for
\* k = 0..6 (R6 without bit i) and PC = mem[0xF8 + i].
C17_FrameLayout ==
    [][phase = "service"
        => \A n \in Len(isr) + 1 .. Len(isr') :
              LET f == isr'[n]
                  s == f.reg[7]
              IN (s >= 9 /\ f.PC \in Addr)
                   => /\ n = Len(isr') => fault' = "none"
                      /\ LeftSP(n) = s - 9
                      /\ ram'[s - 1] = f.PC
                      /\ ram'[s - 2] = f.FL
                      /\ \A k \in 0 .. 5 : ram'[s - 3 - k] = f.reg[k]
                      /\ ram'[s - 9] = BitAnd(f.reg[6], ClearMask(f.i))
                      /\ LeftPC(n) = ram'[VecBase + f.i]]_vars

\* the keyboard interrupt has been serviced from a program with R0 = 3,
\* R1 = 200 and IM = 2 or 3, and its frame lies below the old SP
C17_Witness ==
    /\ phase = "fetch"
    /\ Len(isr) = 1
    /\ isr[1].i = 1
    /\ isr[1].reg[0] = 3
    /\ isr[1].reg[1] = 200
    /\ isr[1].reg[5] # 0
    /\ isr[1].FL = 4
    /\ reg[7] = isr[1].reg[7] - 9
    /\ ram[reg[7] + 8] = isr[1].PC
    /\ ram[reg[7] + 7] = 4
    /\ ram[reg[7] + 5] = 200
    /\ PC = ram[VecBase + 1]

\* C18: a fetch at any PC in 0..255 completes, with IR = mem[PC] and the
\* operands read from (PC + 1) mod 256 and (PC + 2) mod 256, so that an
\* instruction in the last two cells (a HLT at 0xFF) is fetched and executed.
C18_FetchWraps ==
    [][(phase = "fetch" /\ PC \in Addr)
        => /\ fault' = "none"
           /\ IR' = ram[PC]
           /\ operand_a' = ram[(PC + 1) % 256]
           /\ operand_b' = ram[(PC + 2) % 256]]_vars

\* C19: a servicing step makes an entry for interrupt i only if bit i is set
\* in both R5 and R6 as the step finds them; a step that finds R5 & R6 = 0
\* changes nothing (R0..R7, PC, FL and memory are as the sampling left them,
\* no entry is made) and the loop goes on to the fetch at that PC.
C19_Masking ==
    [][phase = "service"
        => /\ \A n \in Len(isr) + 1 .. Len(isr') :
                 Bit(reg[5], isr'[n].i) = 1 /\ Bit(reg[6], isr'[n].i) = 1
           /\ (reg' # reg \/ ram' # ram \/ PC' # PC \/ FL' # FL)
                => BitAnd(reg[5], reg[6]) # 0
           /\ BitAnd(reg[5], reg[6]) = 0
                => /\ reg' = reg
                   /\ ram' = ram
                   /\ PC' = PC
                   /\ FL' = FL
                   /\ isr' = isr
                   /\ fault' = "none"
                   /\ phase' = "fetch"]_vars

\* the keyboard has raised IS bit 1 while IM enables only bit 0, and the
\* servicing step has passed without an entry
C19_Witness ==
    /\ phase = "fetch"
    /\ reg[5] = 1
    /\ reg[6] = 2
    /\ Len(isr) = 0
    /\ reg[7] = SPInit
    /\ fault = "none"

\* both handlers of the image end with IRET and write no register but R0
HandlersKeepIS == ram[32] = LDI /\ ram[48] = IRET

\* C20: in a run whose handlers end with IRET and do not write R6, no
\* interrupt i has been vectored to more often than a source has raised IS
\* bit i from 0 to 1.
C20_ServicedAtMostOnce ==
    HandlersKeepIS => \A i \in 0 .. 7 : vectorings[i] <= raises[i]

====
